---------------------------- MODULE Spec2Model ----------------------------
(***************************************************************************)
(* Model of the C identifier obfuscator (c_obfuscator.py) and of its       *)
(* inverse (c_deobfuscator.py).                                            *)
(*                                                                         *)
(* A text is a sequence of symbols.  A symbol is a one-character string,   *)
(* or one of a few lexemes kept whole: the words the program's patterns    *)
(* and reserved-word set spell out ("int", "struct", "define", ...), the   *)
(* operators "->", "//", "/*" and "*/", and the fixed strings of the       *)
(* conversion table's header.  The one-character letters of the model      *)
(* (LetterChars) cannot spell any of the whole words, so a text has one    *)
(* representation.  Python's regular expressions are values (Set, Cat,     *)
(* Alt, Star, ...) interpreted by Match, a backtracking matcher with       *)
(* Python's priorities (leftmost, alternatives in order, greedy or lazy    *)
(* repetition).                                                            *)
(***************************************************************************)
EXTENDS Integers, Sequences, FiniteSets, TLC

(***************************************************************************)
(* Symbol classes                                                          *)
(***************************************************************************)
Space == {" ", "\n", "\t"}
Digit == {"0", "1", "2", "3", "4", "5", "6", "7", "8", "9"}
LetterChars == {"a", "b", "c", "e", "f", "m", "t", "u", "v", "D", "U", "X", "_"}
KeywordSyms ==
    {"int", "char", "short", "long", "float", "double", "void",
     "signed", "unsigned", "size_t",
     "if", "else", "switch", "case", "default", "break", "continue",
     "for", "while", "do", "goto", "return",
     "auto", "register", "static", "extern", "typedef",
     "const", "volatile", "restrict",
     "struct", "union", "enum", "sizeof", "inline",
     "_Bool", "_Complex", "_Imaginary",
     "_Alignas", "_Alignof", "_Atomic", "_Static_assert",
     "_Noreturn", "_Thread_local", "_Generic",
     "printf", "scanf", "malloc", "free", "memcpy", "memset",
     "strlen", "strcpy", "strcmp", "strcat", "sprintf", "snprintf",
     "fopen", "fclose", "fread", "fwrite", "fprintf", "fscanf",
     "exit", "NULL", "main"}
DirectiveSyms == {"ifdef", "ifndef", "elif", "endif", "pragma", "error", "warning"}
WholeWords == KeywordSyms \cup DirectiveSyms \cup {"define", "include", "uint", "_t", "PROTECTED"}
\* [A-Za-z_]
IdStart == LetterChars \cup WholeWords
\* [A-Za-z0-9_], which is also \w on the model's alphabet
IdCont == IdStart \cup Digit

\* len() of a Python string: the characters of its symbols
StrLen(s) ==
    LET n[j \in 0..Len(s)] == IF j = 0 THEN 0 ELSE n[j - 1] + Len(s[j])
    IN n[Len(s)]

Min(S) == CHOOSE x \in S : \A y \in S : x <= y
Max(S) == CHOOSE x \in S : \A y \in S : y <= x

(***************************************************************************)
(* Regular expressions.  Rep(x, least, greedy) is the repetition of a      *)
(* one-symbol pattern x (a Set or a Not): x*, x+, x*?, x+?.  Star and Lazy *)
(* repeat any pattern.                                                     *)
(***************************************************************************)
Set(S) == [k |-> "set", s |-> S, r |-> <<>>, n |-> 0]
Not(S) == [k |-> "not", s |-> S, r |-> <<>>, n |-> 0]
Lit(x) == Set({x})
\* re.escape(name): the name's symbols, literally
Escape(name) == [k |-> "str", s |-> {}, r |-> name, n |-> 0]
Cat(rs) == [k |-> "cat", s |-> {}, r |-> rs, n |-> 0]
Alt(rs) == [k |-> "alt", s |-> {}, r |-> rs, n |-> 0]
Star(x) == [k |-> "star", s |-> {}, r |-> <<x>>, n |-> 0]
Rep(x, least, greedy) ==
    [k |-> IF greedy THEN "rep" ELSE "lazyrep", s |-> {}, r |-> <<x>>, n |-> least]
Opt(x) == Alt(<<x, Cat(<<>>)>>)
Grp(i, x) == [k |-> "grp", s |-> {}, r |-> <<x>>, n |-> i]
GrpEnd(i, from) == [k |-> "end", s |-> {}, r |-> <<>>, n |-> i, from |-> from]
Look(x) == [k |-> "look", s |-> {}, r |-> <<x>>, n |-> 0]
\* ^ under re.MULTILINE, ^ without it, $ without re.MULTILINE, $ with it, \b
Bol == [k |-> "bol", s |-> {}, r |-> <<>>, n |-> 0]
Bos == [k |-> "bos", s |-> {}, r |-> <<>>, n |-> 0]
Eos == [k |-> "eos", s |-> {}, r |-> <<>>, n |-> 0]
Eol == [k |-> "eol", s |-> {}, r |-> <<>>, n |-> 0]
WordB == [k |-> "wb", s |-> {}, r |-> <<>>, n |-> 0]

NoGroups == <<<<>>, <<>>>>
NoMatch == [ok |-> FALSE, e |-> 0, g |-> NoGroups]

IsWordAt(t, i) == i >= 1 /\ i <= Len(t) /\ t[i] \in IdCont
\* whether the one-symbol pattern x matches the symbol c
Accepts(x, c) == IF x.k = "set" THEN c \in x.s ELSE c \notin x.s
\* how many symbols from position i on the one-symbol pattern x accepts
Run(x, t, i) == Min({j \in i..Len(t) : ~Accepts(x, t[j])} \cup {Len(t) + 1}) - i

\* A condition the symbol at i must meet for the patterns of todo to match
\* from i on: it spares Match the positions at which they cannot
RECURSIVE CanStart(_, _, _)
CanStart(todo, t, i) ==
    IF todo = <<>> THEN TRUE
    ELSE CASE Head(todo).k \in {"set", "not"} ->
                  i <= Len(t) /\ Accepts(Head(todo), t[i])
           [] Head(todo).k = "str" ->
                  IF Head(todo).r = <<>> THEN CanStart(Tail(todo), t, i)
                  ELSE i <= Len(t) /\ t[i] = Head(todo).r[1]
           [] Head(todo).k \in {"rep", "lazyrep"} ->
                  \/ i <= Len(t) /\ Accepts(Head(todo).r[1], t[i])
                  \/ Head(todo).n = 0 /\ CanStart(Tail(todo), t, i)
           [] Head(todo).k = "cat" -> CanStart(Head(todo).r \o Tail(todo), t, i)
           [] Head(todo).k = "alt" ->
                  \E j \in 1..Len(Head(todo).r) :
                      CanStart(<<Head(todo).r[j]>> \o Tail(todo), t, i)
           [] Head(todo).k = "grp" -> CanStart(<<Head(todo).r[1]>> \o Tail(todo), t, i)
           [] Head(todo).k = "end" -> CanStart(Tail(todo), t, i)
           [] Head(todo).k = "wb" ->
                  IsWordAt(t, i - 1) # IsWordAt(t, i) /\ CanStart(Tail(todo), t, i)
           [] OTHER -> TRUE

\* Whether x is made of one-symbol patterns, literals, sequences and
\* alternatives only
RECURSIVE Plain(_)
Plain(x) ==
    CASE x.k \in {"set", "not", "str"} -> TRUE
      [] x.k \in {"cat", "alt"} -> \A j \in 1..Len(x.r) : Plain(x.r[j])
      [] OTHER -> FALSE
\* Every position at which a match of the plain pattern x from i on can end
RECURSIVE Ends(_, _, _)
Ends(x, t, i) ==
    CASE x.k \in {"set", "not"} ->
              IF i <= Len(t) /\ Accepts(x, t[i]) THEN {i + 1} ELSE {}
      [] x.k = "str" ->
              IF i + Len(x.r) - 1 <= Len(t) /\ SubSeq(t, i, i + Len(x.r) - 1) = x.r
              THEN {i + Len(x.r)} ELSE {}
      [] x.k = "alt" -> UNION {Ends(x.r[j], t, i) : j \in 1..Len(x.r)}
      [] x.k = "cat" ->
              IF x.r = <<>> THEN {i}
              ELSE UNION {Ends(Cat(Tail(x.r)), t, j) : j \in Ends(Head(x.r), t, i)}
\* The positions the repetitions of x reach from i: i, the ends of x from
\* i, the ends of x from there, and so on
RECURSIVE Chain(_, _, _)
Chain(x, t, i) == {i} \cup UNION {Chain(x, t, j) : j \in Ends(x, t, i) \ {i}}
\* Whether x can match in one way at most wherever its repetitions from i
\* arrive: the repetitions then have nothing to choose but their number,
\* and Python tries the larger number first
OneWay(x, t, i) ==
    Plain(x) /\ \A j \in Chain(x, t, i) : Cardinality(Ends(x, t, j)) <= 1

\* What Python takes of the outcomes it tries in the order of their first
\* components: the first one that is a match
FirstOf(tries) ==
    IF \A p \in tries : ~p[2].ok THEN NoMatch
    ELSE (CHOOSE p \in tries : p[2].ok /\ \A q \in tries : q[2].ok => p[1] <= q[1])[2]

\* The first way, in Python's order of trying, in which the patterns of
\* todo match t one after the other from position i on.  An alternation
\* tries its alternatives from left to right, a greedy repetition the
\* larger counts first, a lazy one the smaller counts first.
RECURSIVE Match(_, _, _, _)
Match(todo, t, i, g) ==
    CASE todo = <<>> -> [ok |-> TRUE, e |-> i, g |-> g]
      [] Head(todo).k \in {"set", "not"} /\ i <= Len(t) /\ Accepts(Head(todo), t[i]) ->
             Match(Tail(todo), t, i + 1, g)
      [] /\ Head(todo).k = "str"
         /\ i + Len(Head(todo).r) - 1 <= Len(t)
         /\ SubSeq(t, i, i + Len(Head(todo).r) - 1) = Head(todo).r ->
             Match(Tail(todo), t, i + Len(Head(todo).r), g)
      [] Head(todo).k = "cat" -> Match(Head(todo).r \o Tail(todo), t, i, g)
      [] Head(todo).k = "alt" ->
             FirstOf({<<j, Match(<<Head(todo).r[j]>> \o Tail(todo), t, i, g)>> :
                         j \in {a \in 1..Len(Head(todo).r) :
                                    CanStart(<<Head(todo).r[a]>> \o Tail(todo), t, i)}})
      [] Head(todo).k = "rep" ->
             FirstOf({<<0 - c, Match(Tail(todo), t, i + c, g)>> :
                         c \in {d \in Head(todo).n..Run(Head(todo).r[1], t, i) :
                                    CanStart(Tail(todo), t, i + d)}})
      [] Head(todo).k = "lazyrep" ->
             FirstOf({<<c, Match(Tail(todo), t, i + c, g)>> :
                         c \in {d \in Head(todo).n..Run(Head(todo).r[1], t, i) :
                                    CanStart(Tail(todo), t, i + d)}})
      [] Head(todo).k = "star" /\ OneWay(Head(todo).r[1], t, i) ->
             \* the longest chain of repetitions that what follows accepts
             FirstOf({<<0 - p, Match(Tail(todo), t, p, g)>> :
                         p \in {q \in Chain(Head(todo).r[1], t, i) :
                                    CanStart(Tail(todo), t, q)}})
      [] Head(todo).k = "star" ->
             FirstOf({<<1, Match(<<Head(todo).r[1], Head(todo)>> \o Tail(todo), t, i, g)>>,
                      <<2, Match(Tail(todo), t, i, g)>>})
      [] Head(todo).k = "grp" ->
             Match(<<Head(todo).r[1], GrpEnd(Head(todo).n, i)>> \o Tail(todo), t, i, g)
      [] Head(todo).k = "end" ->
             Match(Tail(todo), t, i, [g EXCEPT ![Head(todo).n] = <<Head(todo).from, i>>])
      [] Head(todo).k = "look" /\ Match(<<Head(todo).r[1]>>, t, i, g).ok ->
             Match(Tail(todo), t, i, g)
      [] Head(todo).k = "bol" /\ (i = 1 \/ t[i - 1] = "\n") -> Match(Tail(todo), t, i, g)
      [] Head(todo).k = "bos" /\ i = 1 -> Match(Tail(todo), t, i, g)
      [] Head(todo).k = "eos" /\ (i = Len(t) + 1 \/ (i = Len(t) /\ t[i] = "\n")) ->
             Match(Tail(todo), t, i, g)
      [] Head(todo).k = "eol" /\ (i = Len(t) + 1 \/ t[i] = "\n") ->
             Match(Tail(todo), t, i, g)
      [] Head(todo).k = "wb" /\ IsWordAt(t, i - 1) # IsWordAt(t, i) ->
             Match(Tail(todo), t, i, g)
      [] OTHER -> NoMatch

\* The text of a matched span or group, given as <<from, to>> (to excluded)
Span(t, p) == SubSeq(t, p[1], p[2] - 1)

\* Every position of t with the match of re that starts there, if one does.
\* None of the program's patterns matches the empty string.
Found(i, m) == [s |-> i, e |-> m.e, g |-> m.g, ok |-> m.ok /\ m.e > i]
MatchesAt(re, t) ==
    {m \in {Found(i, Match(<<re>>, t, i, NoGroups)) :
                 i \in {j \in 1..Len(t) : CanStart(<<re>>, t, j)}} : m.ok}
\* the match that starts first
Earliest(found) == CHOOSE m \in found : \A o \in found : m.s <= o.s
\* Python's scan: the leftmost match from position i on, then the leftmost
\* one after its end, and so on
RECURSIVE Leftmost(_, _)
Leftmost(found, i) ==
    LET from == {m \in found : m.s >= i}
    IN IF from = {} THEN <<>>
       ELSE <<Earliest(from)>> \o Leftmost(found, Earliest(from).e)
\* re.finditer(re, t): the non-overlapping matches, left to right, each as
\* [s, e, g]: the span s..e-1 and the groups
FindAll(re, t) == Leftmost(MatchesAt(re, t), 1)

\* t with the spans of ms replaced by new[1], new[2], ...
RECURSIVE Rebuild(_, _, _, _, _)
Rebuild(t, ms, new, j, from) ==
    IF j > Len(ms) THEN SubSeq(t, from, Len(t))
    ELSE SubSeq(t, from, ms[j].s - 1) \o new[j] \o Rebuild(t, ms, new, j + 1, ms[j].e)
\* re.sub(re, new, t) with a constant replacement
SubAll(t, ms, new) == Rebuild(t, ms, [j \in 1..Len(ms) |-> new], 1, 1)
Sub(re, new, t) == SubAll(t, FindAll(re, t), new)

\* str.replace(old, new): plain substring replacement, left to right
Replace(t, old, new) == Sub(Escape(old), new, t)

\* str.strip()
Strip(s) ==
    LET kept == {j \in 1..Len(s) : s[j] \notin Space}
    IN IF kept = {} THEN <<>> ELSE SubSeq(s, Min(kept), Max(kept))

\* str(n) for n >= 0
RECURSIVE Str(_)
Str(n) ==
    LET d == <<"0", "1", "2", "3", "4", "5", "6", "7", "8", "9">>
    IN IF n < 10 THEN <<d[n + 1]>> ELSE Str(n \div 10) \o <<d[(n % 10) + 1]>>

(***************************************************************************)
(* Dictionaries.  A Python dict keeps its keys in insertion order: it is   *)
(* a sequence of <<key, value>> pairs with distinct keys.                  *)
(***************************************************************************)
Keys(d) == {d[j][1] : j \in 1..Len(d)}
Values(d) == {d[j][2] : j \in 1..Len(d)}
HasKey(d, key) == \E j \in 1..Len(d) : d[j][1] = key
Get(d, key) == d[CHOOSE j \in 1..Len(d) : d[j][1] = key][2]
\* d[key] = value
Put(d, key, value) ==
    IF HasKey(d, key)
    THEN [j \in 1..Len(d) |-> IF d[j][1] = key THEN <<key, value>> ELSE d[j]]
    ELSE Append(d, <<key, value>>)

(***************************************************************************)
(* CObfuscator.__init__                                                    *)
(***************************************************************************)
Categories == {"macro", "enum", "struct", "union", "function", "variable", "member", "comment"}
CategoryLetter ==
    [macro |-> "D", enum |-> "e", struct |-> "t", union |-> "u",
     function |-> "f", variable |-> "v", member |-> "m", comment |-> "c"]
\* patterns with the member entry written with the variable's letter
patterns_member_letter_v(prefix, category) ==
    prefix \o <<IF category = "member" THEN "v" ELSE CategoryLetter[category]>>
\* self.patterns[category]
patterns(prefix, category) == prefix \o <<CategoryLetter[category]>>
EmptyIdentifiers == [c \in Categories |-> <<>>]
InitialCounters == [c \in Categories |-> 1]
\* self.c_keywords
c_keywords ==
    {<<w>> : w \in KeywordSyms} \cup
    {<<"uint", "8", "_t">>, <<"uint", "1", "6", "_t">>, <<"uint", "3", "2", "_t">>,
     <<"uint", "6", "4", "_t">>, <<"int", "8", "_t">>, <<"int", "1", "6", "_t">>,
     <<"int", "3", "2", "_t">>, <<"int", "6", "4", "_t">>}
\* is_reserved_word with an empty reserved-word set
is_reserved_word_never(name) == FALSE
is_reserved_word(name) == name \in c_keywords

\* f"{self.patterns[category]}{self.counters[category]}"
NewName(prefix, category, n) == patterns(prefix, category) \o Str(n)

(***************************************************************************)
(* remove_comments_strings_and_directives                                  *)
(***************************************************************************)
Placeholder(counter) == <<"_", "_", "PROTECTED", "_">> \o Str(counter) \o <<"_", "_">>

Ws == Rep(Set(Space), 0, TRUE)
Ws1 == Rep(Set(Space), 1, TRUE)
IncludeRe ==
    Cat(<<Lit("#"), Lit("include"), Ws1, Set({"<", "\""}),
          Rep(Not({">", "\""}), 1, TRUE), Set({">", "\""})>>)
DirectiveRe ==
    Cat(<<Lit("#"),
          Alt(<<Lit("if"), Lit("ifdef"), Lit("ifndef"), Lit("elif"), Lit("else"),
                Lit("endif"), Lit("pragma"), Lit("error"), Lit("warning")>>),
          WordB, Rep(Not({"\n"}), 0, TRUE)>>)
StringRe ==
    Cat(<<Lit("\""), Star(Alt(<<Not({"\"", "\\"}), Cat(<<Lit("\\"), Not({"\n"})>>)>>)),
          Lit("\"")>>)
CharRe ==
    Cat(<<Lit("'"), Star(Alt(<<Not({"'", "\\"}), Cat(<<Lit("\\"), Not({"\n"})>>)>>)),
          Lit("'")>>)
LineCommentRe == Cat(<<Lit("//"), Rep(Not({"\n"}), 0, TRUE)>>)
BlockCommentRe == Cat(<<Lit("/*"), Rep(Not({}), 0, FALSE), Lit("*/")>>)

\* replace_with_placeholder: st is the state the callbacks share, the text
\* produced so far (out), self.protected, counter, self.identifiers['comment']
\* and self.counters['comment'].
replace_with_placeholder(st, group0, transformed_content) ==
    [st EXCEPT !.out = @ \o Placeholder(st.counter),
               !.protected = Put(@, Placeholder(st.counter),
                                 IF transformed_content # <<>>
                                 THEN transformed_content ELSE group0),
               !.counter = @ + 1]

replace_comment(st, original_comment, prefix) ==
    LET line == Head(original_comment) = "//"
        comment_content ==
            IF line THEN Strip(Tail(original_comment))
            ELSE Strip(SubSeq(original_comment, 2, Len(original_comment) - 1))
        comment_id == NewName(prefix, "comment", st.ccounter)
        transformed_comment ==
            IF comment_content # <<>>
            THEN IF line THEN <<"//", " ">> \o comment_id
                 ELSE <<"/*", " ">> \o comment_id \o <<" ", "*/">>
            ELSE original_comment
        st1 == IF comment_content # <<>>
               THEN [st EXCEPT !.comment = Put(@, comment_content, comment_id),
                               !.ccounter = @ + 1]
               ELSE st
    IN replace_with_placeholder(st1, original_comment, transformed_comment)

\* One re.sub(re, callback, code) of the protector: the callback runs on
\* the matches from left to right
RECURSIVE ProtectMatches(_, _, _, _, _, _, _)
ProtectMatches(ms, isComment, t, j, from, st, prefix) ==
    IF j > Len(ms) THEN [st EXCEPT !.out = @ \o SubSeq(t, from, Len(t))]
    ELSE LET before == [st EXCEPT !.out = @ \o SubSeq(t, from, ms[j].s - 1)]
             group0 == SubSeq(t, ms[j].s, ms[j].e - 1)
         IN ProtectMatches(ms, isComment, t, j + 1, ms[j].e,
                IF isComment THEN replace_comment(before, group0, prefix)
                ELSE replace_with_placeholder(before, group0, <<>>),
                prefix)
ProtectPass(re, isComment, t, st, prefix) ==
    ProtectMatches(FindAll(re, t), isComment, t, 1, 1, st, prefix)

\* The passes in the order of the code; each works on the text the pass
\* before it returned.
ProtectPasses ==
    <<[re |-> IncludeRe, c |-> FALSE], [re |-> DirectiveRe, c |-> FALSE],
      [re |-> StringRe, c |-> FALSE], [re |-> CharRe, c |-> FALSE],
      [re |-> LineCommentRe, c |-> TRUE], [re |-> BlockCommentRe, c |-> TRUE]>>

RECURSIVE ProtectFrom(_, _, _, _)
ProtectFrom(passes, j, st, prefix) ==
    IF j > Len(passes) THEN st
    ELSE ProtectFrom(passes, j + 1,
             ProtectPass(passes[j].re, passes[j].c, st.out,
                         [st EXCEPT !.out = <<>>], prefix),
             prefix)

\* The result: [out, protected, counter, comment, ccounter]
remove_comments_strings_and_directives(code, prefix, comment, ccounter) ==
    ProtectFrom(ProtectPasses, 1,
                [out |-> code, protected |-> <<>>, counter |-> 0,
                 comment |-> comment, ccounter |-> ccounter],
                prefix)

\* restore_protected: the placeholders in insertion order
RECURSIVE RestoreFrom(_, _, _)
RestoreFrom(code, protected, j) ==
    IF j > Len(protected) THEN code
    ELSE RestoreFrom(Replace(code, protected[j][1], protected[j][2]), protected, j + 1)
restore_protected(code, protected) == RestoreFrom(code, protected, 1)

(***************************************************************************)
(* extract_identifiers                                                     *)
(***************************************************************************)
\* [A-Za-z_][A-Za-z0-9_]*
Ident == Cat(<<Set(IdStart), Rep(Set(IdCont), 0, TRUE)>>)
\* \w+ and \d+
Word1 == Rep(Set(IdCont), 1, TRUE)
Digits1 == Rep(Set(Digit), 1, TRUE)
Kw(w) == Cat(<<Lit(w), Ws1>>)
Stars == Star(Cat(<<Lit("*"), Ws>>))
\* uint\d+_t|int\d+_t|size_t|struct\s+\w+|union\s+\w+|enum\s+\w+
SizedAndTagTypes ==
    <<Cat(<<Lit("uint"), Digits1, Lit("_t")>>), Cat(<<Lit("int"), Digits1, Lit("_t")>>),
      Lit("size_t"),
      Cat(<<Lit("struct"), Ws1, Word1>>), Cat(<<Lit("union"), Ws1, Word1>>),
      Cat(<<Lit("enum"), Ws1, Word1>>)>>
\* int|char|short|long|float|double|void|... (members, parameters, variables)
DeclType ==
    Alt(<<Lit("int"), Lit("char"), Lit("short"), Lit("long"), Lit("float"),
          Lit("double"), Lit("void")>> \o SizedAndTagTypes)
\* void|int|char|short|long|float|double|unsigned|signed|... (functions)
ReturnType ==
    Alt(<<Lit("void"), Lit("int"), Lit("char"), Lit("short"), Lit("long"),
          Lit("float"), Lit("double"), Lit("unsigned"), Lit("signed")>>
        \o SizedAndTagTypes)

MacroRe == Cat(<<Lit("#"), Lit("define"), Ws1, Grp(1, Ident)>>)
EnumRe == Cat(<<Lit("enum"), Ws1, Grp(1, Ident), Ws, Alt(<<Lit("{"), Lit(";")>>)>>)
StructRe ==
    Cat(<<Lit("struct"), Ws1, Grp(1, Ident), Ws,
          Alt(<<Lit("{"), Lit(";"), Lit("*"), Not(IdCont)>>)>>)
UnionRe ==
    Cat(<<Lit("union"), Ws1, Grp(1, Ident), Ws,
          Alt(<<Lit("{"), Lit(";"), Lit("*"), Not(IdCont)>>)>>)
FunctionRe ==
    Cat(<<Alt(<<Bol, Set({"\n", ";"})>>), Ws,
          Star(Alt(<<Kw("static"), Kw("inline"), Kw("extern")>>)),
          Star(Alt(<<Kw("const"), Kw("volatile")>>)),
          ReturnType, Ws1, Stars, Grp(1, Ident), Ws,
          Lit("("), Rep(Not({")"}), 0, TRUE), Lit(")"), Ws, Set({";", "{"})>>)
MemberAccessRe == Cat(<<Alt(<<Lit("->"), Lit(".")>>), Ws, Grp(1, Ident)>>)
EnumBlockRe ==
    Cat(<<Lit("enum"), Ws1, Opt(Ident), Ws, Lit("{"), Grp(1, Rep(Not({"}"}), 1, TRUE)), Lit("}")>>)
EnumeratorRe ==
    Cat(<<Grp(1, Ident), Ws, Opt(Cat(<<Lit("="), Ws, Rep(Not({",", "}"}), 1, TRUE)>>)),
          Alt(<<Lit(","), Lit("}")>>)>>)
StructUnionBlockRe ==
    Cat(<<Alt(<<Lit("struct"), Lit("union")>>), Ws1, Opt(Ident), Ws, Lit("{"),
          Grp(1, Rep(Not({"}"}), 1, TRUE)), Lit("}")>>)
MemberDeclRe ==
    Cat(<<Star(Alt(<<Kw("unsigned"), Kw("const"), Kw("volatile"), Kw("static")>>)),
          DeclType, Ws1, Stars, Grp(1, Ident), Ws,
          Alt(<<Cat(<<Lit(":"), Ws, Digits1>>), Lit(";"), Lit("[")>>)>>)
ParameterRe ==
    Cat(<<Lit("("), Ws, Star(Alt(<<Kw("const"), Kw("volatile")>>)),
          Star(Alt(<<Kw("unsigned"), Kw("signed")>>)),
          DeclType, Ws1, Stars, Grp(1, Ident), Ws, Set({",", ")"})>>)
VariableRe ==
    Cat(<<Alt(<<Bol, Set({"\n", ";", "{"})>>), Ws,
          Star(Alt(<<Kw("static"), Kw("extern"), Kw("const"), Kw("volatile")>>)),
          Star(Alt(<<Kw("unsigned"), Kw("signed")>>)),
          DeclType, Ws1, Stars, Grp(1, Ident), Ws, Set({"=", ";", "[", ","})>>)
variable_patterns == <<ParameterRe, VariableRe>>
ForRe ==
    Cat(<<Lit("for"), Ws, Lit("("), Ws,
          Alt(<<Lit("int"), Cat(<<Lit("uint"), Digits1, Lit("_t")>>), Lit("size_t")>>),
          Ws1, Grp(1, Ident)>>)

\* match.group(1) of every match of re in code, in order
Groups(code, ms, n) == [j \in 1..Len(ms) |-> Span(code, ms[j].g[n])]
Group1s(re, code) == Groups(code, FindAll(re, code), 1)

RECURSIVE Flatten(_)
Flatten(ss) == IF ss = <<>> THEN <<>> ELSE Head(ss) \o Flatten(Tail(ss))
\* the names inner finds in group 1 of every match of outer
NamesIn(inner, blocks) == Flatten([j \in 1..Len(blocks) |-> Group1s(inner, blocks[j])])
BlockNames(outer, inner, code) == NamesIn(inner, Group1s(outer, code))

\* The body of every loop of extract_identifiers: the name is recorded in
\* category unless one of the maps of checked holds it or it is reserved.
\* st is [identifiers, counters, used_identifiers].
\* Record without "self.counters[category] += 1"
Record_without_increment(st, prefix, category, checked, name) ==
    IF (\A c \in checked : ~HasKey(st.identifiers[c], name)) /\ ~is_reserved_word(name)
    THEN [identifiers |->
              [st.identifiers EXCEPT ![category] =
                  Put(@, name, NewName(prefix, category, st.counters[category]))],
          counters |-> st.counters,
          used_identifiers |-> st.used_identifiers \cup {name}]
    ELSE st
Record(st, prefix, category, checked, name) ==
    IF (\A c \in checked : ~HasKey(st.identifiers[c], name)) /\ ~is_reserved_word(name)
    THEN [identifiers |->
              [st.identifiers EXCEPT ![category] =
                  Put(@, name, NewName(prefix, category, st.counters[category]))],
          counters |-> [st.counters EXCEPT ![category] = @ + 1],
          used_identifiers |-> st.used_identifiers \cup {name}]
    ELSE st

RECURSIVE RecordAll(_, _, _, _, _)
RecordAll(st, prefix, category, checked, names) ==
    IF names = <<>> THEN st
    ELSE RecordAll(Record(st, prefix, category, checked, Head(names)),
                   prefix, category, checked, Tail(names))

\* The categories whose maps the variable loops look a name up in
VariableChecked == {"function", "struct", "union", "enum", "variable", "macro", "member"}
ForChecked == {"variable", "member"}

\* The loops in the order of the code: the names of a loop are group 1 of
\* the matches of re, looked for in group 1 of every match of block when
\* the loop is nested in a loop over blocks
Loops ==
    <<[re |-> MacroRe, block |-> <<>>, category |-> "macro", checked |-> {"macro"}],
      [re |-> EnumRe, block |-> <<>>, category |-> "enum", checked |-> {"enum"}],
      [re |-> StructRe, block |-> <<>>, category |-> "struct", checked |-> {"struct"}],
      [re |-> UnionRe, block |-> <<>>, category |-> "union", checked |-> {"union"}],
      [re |-> FunctionRe, block |-> <<>>, category |-> "function",
       checked |-> {"function"}],
      [re |-> MemberAccessRe, block |-> <<>>, category |-> "member",
       checked |-> {"member"}],
      [re |-> EnumeratorRe, block |-> <<EnumBlockRe>>, category |-> "member",
       checked |-> {"member"}],
      [re |-> MemberDeclRe, block |-> <<StructUnionBlockRe>>, category |-> "member",
       checked |-> {"member"}],
      [re |-> variable_patterns[1], block |-> <<>>, category |-> "variable",
       checked |-> VariableChecked],
      [re |-> variable_patterns[2], block |-> <<>>, category |-> "variable",
       checked |-> VariableChecked],
      [re |-> ForRe, block |-> <<>>, category |-> "variable", checked |-> ForChecked]>>
LoopNames(loop, code) ==
    IF loop.block = <<>> THEN Group1s(loop.re, code)
    ELSE BlockNames(loop.block[1], loop.re, code)
RECURSIVE ExtractFrom(_, _, _, _, _)
ExtractFrom(loops, j, code, prefix, st) ==
    IF j > Len(loops) THEN st
    ELSE ExtractFrom(loops, j + 1, code, prefix,
             RecordAll(st, prefix, loops[j].category, loops[j].checked,
                       LoopNames(loops[j], code)))
extract_identifiers(code, prefix, st) == ExtractFrom(Loops, 1, code, prefix, st)

(***************************************************************************)
(* apply_transformations                                                   *)
(***************************************************************************)
\* The order in which the categories are collected
TransformOrder == <<"macro", "enum", "struct", "union", "function", "member", "variable">>

all_items(identifiers) ==
    Flatten([j \in 1..Len(TransformOrder) |-> identifiers[TransformOrder[j]]])

\* list.sort(key=len of the old name, reverse=True): stable, so items of
\* one length keep their order
RECURSIVE SortFrom(_, _)
SortFrom(items, n) ==
    IF n = 0 THEN <<>>
    ELSE SelectSeq(items, LAMBDA it : StrLen(it[1]) = n) \o SortFrom(items, n - 1)
MaxStrLen(items) ==
    IF items = <<>> THEN 0
    ELSE LET j == CHOOSE j \in 1..Len(items) :
                      \A k \in 1..Len(items) : StrLen(items[k][1]) <= StrLen(items[j][1])
         IN StrLen(items[j][1])
SortByLengthDesc(items) == SortFrom(items, MaxStrLen(items))

\* re.sub(r'\b' + re.escape(old_name) + r'\b', new_name, code)
SubstituteName(code, old_name, new_name) ==
    Sub(Cat(<<WordB, Escape(old_name), WordB>>), new_name, code)

RECURSIVE ApplyFrom(_, _, _)
ApplyFrom(code, items, j) ==
    IF j > Len(items) THEN code
    ELSE ApplyFrom(SubstituteName(code, items[j][1], items[j][2]), items, j + 1)
apply_transformations(code, identifiers) ==
    ApplyFrom(code, SortByLengthDesc(all_items(identifiers)), 1)

(***************************************************************************)
(* The order of Python strings: by the code points of their characters     *)
(***************************************************************************)
\* The characters of the symbols that are longer than one character
Spelling ==
    <<<<"int", <<"i", "n", "t">>>>,
      <<"char", <<"c", "h", "a", "r">>>>,
      <<"short", <<"s", "h", "o", "r", "t">>>>,
      <<"long", <<"l", "o", "n", "g">>>>,
      <<"float", <<"f", "l", "o", "a", "t">>>>,
      <<"double", <<"d", "o", "u", "b", "l", "e">>>>,
      <<"void", <<"v", "o", "i", "d">>>>,
      <<"signed", <<"s", "i", "g", "n", "e", "d">>>>,
      <<"unsigned", <<"u", "n", "s", "i", "g", "n", "e", "d">>>>,
      <<"size_t", <<"s", "i", "z", "e", "_", "t">>>>,
      <<"if", <<"i", "f">>>>,
      <<"else", <<"e", "l", "s", "e">>>>,
      <<"switch", <<"s", "w", "i", "t", "c", "h">>>>,
      <<"case", <<"c", "a", "s", "e">>>>,
      <<"default", <<"d", "e", "f", "a", "u", "l", "t">>>>,
      <<"break", <<"b", "r", "e", "a", "k">>>>,
      <<"continue", <<"c", "o", "n", "t", "i", "n", "u", "e">>>>,
      <<"for", <<"f", "o", "r">>>>,
      <<"while", <<"w", "h", "i", "l", "e">>>>,
      <<"do", <<"d", "o">>>>,
      <<"goto", <<"g", "o", "t", "o">>>>,
      <<"return", <<"r", "e", "t", "u", "r", "n">>>>,
      <<"auto", <<"a", "u", "t", "o">>>>,
      <<"register", <<"r", "e", "g", "i", "s", "t", "e", "r">>>>,
      <<"static", <<"s", "t", "a", "t", "i", "c">>>>,
      <<"extern", <<"e", "x", "t", "e", "r", "n">>>>,
      <<"typedef", <<"t", "y", "p", "e", "d", "e", "f">>>>,
      <<"const", <<"c", "o", "n", "s", "t">>>>,
      <<"volatile", <<"v", "o", "l", "a", "t", "i", "l", "e">>>>,
      <<"restrict", <<"r", "e", "s", "t", "r", "i", "c", "t">>>>,
      <<"struct", <<"s", "t", "r", "u", "c", "t">>>>,
      <<"union", <<"u", "n", "i", "o", "n">>>>,
      <<"enum", <<"e", "n", "u", "m">>>>,
      <<"sizeof", <<"s", "i", "z", "e", "o", "f">>>>,
      <<"inline", <<"i", "n", "l", "i", "n", "e">>>>,
      <<"_Bool", <<"_", "B", "o", "o", "l">>>>,
      <<"_Complex", <<"_", "C", "o", "m", "p", "l", "e", "x">>>>,
      <<"_Imaginary", <<"_", "I", "m", "a", "g", "i", "n", "a", "r", "y">>>>,
      <<"_Alignas", <<"_", "A", "l", "i", "g", "n", "a", "s">>>>,
      <<"_Alignof", <<"_", "A", "l", "i", "g", "n", "o", "f">>>>,
      <<"_Atomic", <<"_", "A", "t", "o", "m", "i", "c">>>>,
      <<"_Static_assert", <<"_", "S", "t", "a", "t", "i", "c", "_", "a", "s", "s", "e", "r", "t">>>>,
      <<"_Noreturn", <<"_", "N", "o", "r", "e", "t", "u", "r", "n">>>>,
      <<"_Thread_local", <<"_", "T", "h", "r", "e", "a", "d", "_", "l", "o", "c", "a", "l">>>>,
      <<"_Generic", <<"_", "G", "e", "n", "e", "r", "i", "c">>>>,
      <<"printf", <<"p", "r", "i", "n", "t", "f">>>>,
      <<"scanf", <<"s", "c", "a", "n", "f">>>>,
      <<"malloc", <<"m", "a", "l", "l", "o", "c">>>>,
      <<"free", <<"f", "r", "e", "e">>>>,
      <<"memcpy", <<"m", "e", "m", "c", "p", "y">>>>,
      <<"memset", <<"m", "e", "m", "s", "e", "t">>>>,
      <<"strlen", <<"s", "t", "r", "l", "e", "n">>>>,
      <<"strcpy", <<"s", "t", "r", "c", "p", "y">>>>,
      <<"strcmp", <<"s", "t", "r", "c", "m", "p">>>>,
      <<"strcat", <<"s", "t", "r", "c", "a", "t">>>>,
      <<"sprintf", <<"s", "p", "r", "i", "n", "t", "f">>>>,
      <<"snprintf", <<"s", "n", "p", "r", "i", "n", "t", "f">>>>,
      <<"fopen", <<"f", "o", "p", "e", "n">>>>,
      <<"fclose", <<"f", "c", "l", "o", "s", "e">>>>,
      <<"fread", <<"f", "r", "e", "a", "d">>>>,
      <<"fwrite", <<"f", "w", "r", "i", "t", "e">>>>,
      <<"fprintf", <<"f", "p", "r", "i", "n", "t", "f">>>>,
      <<"fscanf", <<"f", "s", "c", "a", "n", "f">>>>,
      <<"exit", <<"e", "x", "i", "t">>>>,
      <<"NULL", <<"N", "U", "L", "L">>>>,
      <<"main", <<"m", "a", "i", "n">>>>,
      <<"ifdef", <<"i", "f", "d", "e", "f">>>>,
      <<"ifndef", <<"i", "f", "n", "d", "e", "f">>>>,
      <<"elif", <<"e", "l", "i", "f">>>>,
      <<"endif", <<"e", "n", "d", "i", "f">>>>,
      <<"pragma", <<"p", "r", "a", "g", "m", "a">>>>,
      <<"error", <<"e", "r", "r", "o", "r">>>>,
      <<"warning", <<"w", "a", "r", "n", "i", "n", "g">>>>,
      <<"define", <<"d", "e", "f", "i", "n", "e">>>>,
      <<"include", <<"i", "n", "c", "l", "u", "d", "e">>>>,
      <<"uint", <<"u", "i", "n", "t">>>>,
      <<"_t", <<"_", "t">>>>,
      <<"PROTECTED", <<"P", "R", "O", "T", "E", "C", "T", "E", "D">>>>,
      <<"->", <<"-", ">">>>>,
      <<"//", <<"/", "/">>>>,
      <<"/*", <<"/", "*">>>>,
      <<"*/", <<"*", "/">>>>>>
Spelled(spelling, x) ==
    IF \E j \in 1..Len(spelling) : spelling[j][1] = x
    THEN spelling[CHOOSE j \in 1..Len(spelling) : spelling[j][1] = x][2]
    ELSE <<x>>
Chars(x) == Spelled(Spelling, x)
RECURSIVE Expand(_)
Expand(s) == IF s = <<>> THEN <<>> ELSE Chars(Head(s)) \o Expand(Tail(s))
\* The characters of codes 32 to 126 (code 96 is written <grave>)
Ascii == <<" ", "!", "\"", "#", "$", "%", "&", "'", "(", ")", "*", "+", ",",
         "-", ".", "/", "0", "1", "2", "3", "4", "5", "6", "7", "8", "9",
         ":", ";", "<", "=", ">", "?", "@", "A", "B", "C", "D", "E", "F",
         "G", "H", "I", "J", "K", "L", "M", "N", "O", "P", "Q", "R", "S",
         "T", "U", "V", "W", "X", "Y", "Z", "[", "\\", "]", "^", "_", "<grave>",
         "a", "b", "c", "d", "e", "f", "g", "h", "i", "j", "k", "l", "m",
         "n", "o", "p", "q", "r", "s", "t", "u", "v", "w", "x", "y", "z",
         "{", "|", "}", "~">>
ord(ch) ==
    IF ch = "\n" THEN 10
    ELSE IF ch = "\t" THEN 9
    ELSE 31 + (CHOOSE j \in 1..Len(Ascii) : Ascii[j] = ch)
RECURSIVE CharsLess(_, _)
CharsLess(a, b) ==
    IF b = <<>> THEN FALSE
    ELSE IF a = <<>> THEN TRUE
    ELSE IF Head(a) = Head(b) THEN CharsLess(Tail(a), Tail(b))
    ELSE ord(Head(a)) < ord(Head(b))
\* a < b for two strings
StrLess(a, b) == CharsLess(Expand(a), Expand(b))

\* The two orders the program sorts by: the items of a category by their
\* old name (sorted(dict.items()), the keys being distinct), and the new
\* names by key=lambda x: (len(x), x), reverse=True
ItemBefore(a, b) == StrLess(a[1], b[1])
NameBefore(a, b) ==
    \/ StrLen(a) > StrLen(b)
    \/ StrLen(a) = StrLen(b) /\ StrLess(b, a)
Before(by, a, b) == IF by = "item" THEN ItemBefore(a, b) ELSE NameBefore(a, b)
\* sorted(xs) (insertion sort)
RECURSIVE Insert(_, _, _)
Insert(sorted, x, by) ==
    IF sorted = <<>> THEN <<x>>
    ELSE IF Before(by, x, Head(sorted)) THEN <<x>> \o sorted
    ELSE <<Head(sorted)>> \o Insert(Tail(sorted), x, by)
RECURSIVE Sorted(_, _)
Sorted(xs, by) ==
    IF xs = <<>> THEN <<>>
    ELSE Insert(Sorted(SubSeq(xs, 1, Len(xs) - 1), by), xs[Len(xs)], by)

RECURSIVE Join(_, _)
Join(lines, sep) ==
    IF lines = <<>> THEN <<>>
    ELSE IF Len(lines) = 1 THEN lines[1]
    ELSE lines[1] \o sep \o Join(Tail(lines), sep)

\* str.split('\n')
Split(t) ==
    LET breaks == {i \in 1..Len(t) : t[i] = "\n"}
        \* the k-th line break; the text's two ends count as breaks 0 and n+1
        at(k) == IF k = 0 THEN 0
                 ELSE IF k > Cardinality(breaks) THEN Len(t) + 1
                 ELSE CHOOSE p \in breaks : Cardinality({q \in breaks : q <= p}) = k
    IN [k \in 1..(Cardinality(breaks) + 1) |-> SubSeq(t, at(k - 1) + 1, at(k) - 1)]

(***************************************************************************)
(* generate_conversion_table.  The fixed strings of the table are one      *)
(* symbol each: "====" is the rule of 60 "=", "[title]" and "[prefix:]"    *)
(* the two parts of the title before the prefix, "[macro]" ... "[comment]" *)
(* the bracketed category names, "[total:]" and "[items]" the parts of the *)
(* last line around the count.                                             *)
(***************************************************************************)
TableOrder ==
    <<"macro", "enum", "struct", "union", "function", "variable", "member", "comment">>
CategoryName ==
    [macro |-> "[macro]", enum |-> "[enum]", struct |-> "[struct]", union |-> "[union]",
     function |-> "[function]", variable |-> "[variable]", member |-> "[member]",
     comment |-> "[comment]"]
\* the width of {old_name:30s}
FieldWidth == 30
Spaces(n) == [j \in 1..n |-> " "]
\* f"  {old_name:30s} -> {new_name}"
TableLine(old_name, new_name) ==
    <<" ", " ">> \o old_name
    \o Spaces(IF StrLen(old_name) < FieldWidth THEN FieldWidth - StrLen(old_name) ELSE 0)
    \o <<" ", "->", " ">> \o new_name
ItemLines(category, items) ==
    IF items = <<>> THEN <<>>
    ELSE <<<<"\n", CategoryName[category]>>>>
         \o [j \in 1..Len(items) |-> TableLine(items[j][1], items[j][2])]
CategoryLines(identifiers, category) ==
    ItemLines(category, Sorted(identifiers[category], "item"))
total_count(identifiers) ==
    LET n[j \in 0..Len(TableOrder)] ==
            IF j = 0 THEN 0 ELSE n[j - 1] + Len(identifiers[TableOrder[j]])
    IN n[Len(TableOrder)]
generate_conversion_table(identifiers, prefix) ==
    Join(<<<<"====">>, <<"[title]", " ", "(", "[prefix:]", " ">> \o prefix \o <<")">>,
           <<"====">>>>
         \o Flatten([j \in 1..Len(TableOrder) |-> CategoryLines(identifiers, TableOrder[j])])
         \o <<<<"\n", "[total:]", " ">> \o Str(total_count(identifiers)) \o <<" ", "[items]">>,
              <<"====">>>>,
         <<"\n">>)

(***************************************************************************)
(* CDeobfuscator.parse_conversion_table                                    *)
(***************************************************************************)
DefaultPrefix == <<"U", "t">>
PrefixRe == Cat(<<Lit("[prefix:]"), Ws, Grp(1, Word1)>>)
\* re.search: the first match, if any
First(found) ==
    IF found = {} THEN NoMatch
    ELSE [ok |-> TRUE, e |-> Earliest(found).e, g |-> Earliest(found).g]
Search(re, t) == First(MatchesAt(re, t))
\* match.group(1) if the header was found, else the prefix __init__ set
PrefixOf(content, m) == IF m.ok THEN Span(content, m.g[1]) ELSE DefaultPrefix
DetectPrefix(content) == PrefixOf(content, Search(PrefixRe, content))
\* r'^\s+(.+?)\s+->\s+(' + re.escape(self.prefix) + r'[A-Za-z0-9_]+)\s*$'
LineRe(prefix) ==
    Cat(<<Bos, Ws1, Grp(1, Rep(Not({"\n"}), 1, FALSE)), Ws1, Lit("->"), Ws1,
          Grp(2, Cat(<<Escape(prefix), Rep(Set(IdCont), 1, TRUE)>>)), Ws, Eos>>)
RECURSIVE ParseLines(_, _, _)
\* the body of the loop: conversion_map[new_name] = old_name on a match m
ParseLine(line, m, conversion_map) ==
    IF m.ok THEN Put(conversion_map, Span(line, m.g[2]), Strip(Span(line, m.g[1])))
    ELSE conversion_map
ParseLines(lines, pattern, conversion_map) ==
    IF lines = <<>> THEN conversion_map
    ELSE ParseLines(Tail(lines), pattern,
             ParseLine(Head(lines), Match(<<pattern>>, Head(lines), 1, NoGroups),
                       conversion_map))
ParseWith(content, prefix) ==
    [prefix |-> prefix, conversion_map |-> ParseLines(Split(content), LineRe(prefix), <<>>)]
\* The result: [prefix, conversion_map], the map as new_name -> old_name
parse_conversion_table(content) == ParseWith(content, DetectPrefix(content))

(***************************************************************************)
(* CDeobfuscator.deobfuscate                                               *)
(***************************************************************************)
StartsWith(s, p) == Len(s) >= Len(p) /\ SubSeq(s, 1, Len(p)) = p
\* sub in s
Contains(s, sub) ==
    \E i \in 1..(Len(s) + 1) : i + Len(sub) - 1 <= Len(s) /\ SubSeq(s, i, i + Len(sub) - 1) = sub
\* str.isdigit()
IsDigits(s) == s # <<>> /\ \A j \in 1..Len(s) : s[j] \in Digit
IsCommentId(new_name, prefix) ==
    /\ StartsWith(new_name, prefix \o <<"c">>)
    /\ StrLen(new_name) > StrLen(prefix) + 1
    /\ IsDigits(SubSeq(new_name, Len(prefix) + 2, Len(new_name)))

\* The four substitutions of one normal identifier
\* the three substitutions under "if self.prefix in new_name"
RestoreInNames(code, new_name, old_name) ==
    Sub(Cat(<<WordB, Escape(new_name), Lit("_")>>), old_name \o <<"_">>,
        Sub(Cat(<<Lit("_"), Escape(new_name), WordB>>), <<"_">> \o old_name,
            Sub(Cat(<<Lit("_"), Escape(new_name), Lit("_")>>),
                <<"_">> \o old_name \o <<"_">>, code)))
RestoreWhole(code, new_name, old_name) ==
    Sub(Cat(<<WordB, Escape(new_name), WordB>>), old_name, code)
RestoreMore(whole, new_name, old_name, prefix) ==
    IF Contains(new_name, prefix) THEN RestoreInNames(whole, new_name, old_name)
    ELSE whole
RestoreName(code, new_name, old_name, prefix) ==
    RestoreMore(RestoreWhole(code, new_name, old_name), new_name, old_name, prefix)
\* The two substitutions of one comment identifier
RestoreComment(code, new_name, old_name) ==
    Sub(Cat(<<Lit("/*"), Ws, Escape(new_name), Ws, Lit("*/")>>),
        <<"/*", " ">> \o old_name \o <<" ", "*/">>,
        Sub(Cat(<<Lit("//"), Ws, Escape(new_name),
                  Look(Alt(<<Cat(<<Ws, Eol>>), Cat(<<Ws, Lit("\n")>>)>>))>>),
            <<"//", " ">> \o old_name, code))

RECURSIVE RestoreNames(_, _, _, _)
RestoreNames(code, names, conversion_map, prefix) ==
    IF names = <<>> THEN code
    ELSE RestoreNames(RestoreName(code, Head(names), Get(conversion_map, Head(names)), prefix),
                      Tail(names), conversion_map, prefix)
RECURSIVE RestoreComments(_, _, _)
RestoreComments(code, names, conversion_map) ==
    IF names = <<>> THEN code
    ELSE RestoreComments(RestoreComment(code, Head(names), Get(conversion_map, Head(names))),
                         Tail(names), conversion_map)

comment_ids(sorted_names, prefix) ==
    SelectSeq(sorted_names, LAMBDA x : IsCommentId(x, prefix))
normal_ids(sorted_names, prefix) ==
    SelectSeq(sorted_names, LAMBDA x : ~IsCommentId(x, prefix))
RestoreSorted(code, sorted_names, conversion_map, prefix) ==
    RestoreComments(RestoreNames(code, normal_ids(sorted_names, prefix), conversion_map, prefix),
                    comment_ids(sorted_names, prefix), conversion_map)
\* deobfuscate giving up (returning no text) when the map is empty
deobfuscate_gives_up(obfuscated_code, conversion_map, prefix) ==
    IF conversion_map = <<>> THEN <<>>
    ELSE RestoreSorted(obfuscated_code,
                       Sorted([j \in 1..Len(conversion_map) |-> conversion_map[j][1]], "name"),
                       conversion_map, prefix)
deobfuscate(obfuscated_code, conversion_map, prefix) ==
    RestoreSorted(obfuscated_code,
                  Sorted([j \in 1..Len(conversion_map) |-> conversion_map[j][1]], "name"),
                  conversion_map, prefix)

(***************************************************************************)
(* The inputs: a source text is up to MaxFragments fragments of Library,   *)
(* one after the other, and the prefix is one of Prefixes.                 *)
(***************************************************************************)
MaxFragments == 2
Library ==
    {<<"#", "define", " ", "a", " ", "1", "\n">>,
     <<"enum", " ", "a", " ", "{", " ", "b", ",", " ", "c", " ", "}", ";", "\n">>,
     <<"struct", " ", "a", "_", "b", " ", "{", " ", "int", " ", "a", ";", " ", "}", ";", "\n">>,
     <<"union", " ", "a", " ", "{", " ", "int", " ", "b", " ", ":", " ", "1", ";", " ", "}", ";", "\n">>,
     <<"int", " ", "a", "(", "void", ")", ";", "\n">>,
     <<"c", "->", "a", "_", "b", " ", "=", " ", "b", ".", "a", ";", "\n">>,
     <<"int", " ", "a", ";", "\n">>,
     <<"int", " ", "a", "_", "b", ";", "\n">>,
     <<"int", " ", "U", "t", "v", "1", "_", "a", ";", "\n">>,
     <<"int", " ", "U", "t", "v", "1", ";", "\n">>,
     <<"//", " ", "a", " ", "b", "\n">>,
     <<"//", "a", "\n">>,
     <<"/*", " ", "a", "\n", " ", "b", " ", "*/", "\n">>,
     <<"/*", "*/", "\n">>,
     <<"b", " ", "=", " ", "'", "\"", "'", ";", " ", "c", " ", "=", " ", "\"", " ", "a", " ", "\"", ";", "\n">>,
     <<"c", " ", "=", " ", "\"", "U", "t", "v", "1", "\"", ";", "\n">>,
     <<"for", " ", "(", "int", " ", "a", " ", "=", " ", "0", ";", ";", ")", " ", "{", "}", "\n">>,
     <<"#", "include", " ", "<", "a", ">", "\n">>,
     <<"int", " ", "main", "(", "void", ")", " ", "{", " ", "return", " ", "a", ";", " ", "}", "\n">>,
     <<"c", " ", "=", " ", "\"", "#", "include", " ", "<", "a", ">", "\"", ";", "\n">>,
     <<"b", " ", "=", " ", "c", "_", "U", "t", "f", "1", "_", "U", "t", "f", "1", "_", "c",
       " ", "+", " ", "U", "t", "f", "1", "0", ";", "\n">>,
     <<"b", " ", "=", " ", "U", "t", "c", "1", " ", "+", " ", "//", "\n",
       "U", "t", "c", "1", "\n", ";", "\n">>}
Prefixes == {<<"U", "t">>, <<"X">>, <<>>}
RECURSIVE Sources(_)
Sources(n) ==
    IF n = 0 THEN {<<>>}
    ELSE Sources(n - 1) \cup {s \o f : s \in Sources(n - 1), f \in Library}

(***************************************************************************)
(* State: the fields of the CObfuscator, the locals of obfuscate(), the    *)
(* fields of the CDeobfuscator and the text deobfuscate() returns.         *)
(***************************************************************************)
VARIABLES
    pc,
    source_code, prefix, identifiers, counters, used_identifiers, protected,
    protected_code, transformed_code, result_code, conversion_table,
    obfuscated_code, conversion_map, deobfuscator_prefix, restored_code

obfuscator == <<source_code, prefix, identifiers, counters, used_identifiers, protected>>
locals == <<protected_code, transformed_code, result_code, conversion_table>>
deobfuscator == <<obfuscated_code, conversion_map, deobfuscator_prefix, restored_code>>
vars == <<pc, obfuscator, locals, deobfuscator>>

\* CObfuscator(source_code, prefix) and CDeobfuscator's defaults
Init ==
    /\ pc = "start"
    /\ source_code \in Sources(MaxFragments)
    /\ prefix \in Prefixes
    /\ identifiers = EmptyIdentifiers
    /\ counters = InitialCounters
    /\ used_identifiers = {}
    /\ protected = <<>>
    /\ protected_code = <<>>
    /\ transformed_code = <<>>
    /\ result_code = <<>>
    /\ conversion_table = <<>>
    /\ obfuscated_code = <<>>
    /\ conversion_map = <<>>
    /\ deobfuscator_prefix = DefaultPrefix
    /\ restored_code = <<>>

\* obfuscate(): remove_comments_strings_and_directives(self.source_code)
Protect ==
    /\ pc = "start"
    /\ \E p \in {remove_comments_strings_and_directives(
                     source_code, prefix, identifiers["comment"], counters["comment"])} :
          /\ protected_code' = p.out
          /\ protected' = p.protected
          /\ identifiers' = [identifiers EXCEPT !["comment"] = p.comment]
          /\ counters' = [counters EXCEPT !["comment"] = p.ccounter]
    /\ pc' = "protected"
    /\ UNCHANGED <<source_code, prefix, used_identifiers, transformed_code, result_code,
                   conversion_table, deobfuscator>>

\* obfuscate(): self.extract_identifiers(protected_code)
Extract ==
    /\ pc = "protected"
    /\ \E st \in {extract_identifiers(protected_code, prefix,
                      [identifiers |-> identifiers, counters |-> counters,
                       used_identifiers |-> used_identifiers])} :
          /\ identifiers' = st.identifiers
          /\ counters' = st.counters
          /\ used_identifiers' = st.used_identifiers
    /\ pc' = "extracted"
    /\ UNCHANGED <<source_code, prefix, protected, locals, deobfuscator>>

\* A variant of Apply that does not wait for extract_identifiers
Apply_without_waiting ==
    /\ pc \in {"protected", "extracted"}
    /\ transformed_code' = apply_transformations(protected_code, identifiers)
    /\ pc' = "transformed"
    /\ UNCHANGED <<obfuscator, protected_code, result_code, conversion_table, deobfuscator>>

\* obfuscate(): self.apply_transformations(protected_code)
Apply ==
    /\ pc = "extracted"
    /\ transformed_code' = apply_transformations(protected_code, identifiers)
    /\ pc' = "transformed"
    /\ UNCHANGED <<obfuscator, protected_code, result_code, conversion_table, deobfuscator>>

\* obfuscate(): self.restore_protected(transformed_code)
Restore ==
    /\ pc = "transformed"
    /\ result_code' = restore_protected(transformed_code, protected)
    /\ pc' = "restored"
    /\ UNCHANGED <<obfuscator, protected_code, transformed_code, conversion_table,
                   deobfuscator>>

\* obfuscate(): self.generate_conversion_table(), and the return
GenerateTable ==
    /\ pc = "restored"
    /\ conversion_table' = generate_conversion_table(identifiers, prefix)
    /\ pc' = "obfuscated"
    /\ UNCHANGED <<obfuscator, protected_code, transformed_code, result_code, deobfuscator>>

\* CDeobfuscator(obfuscated_code, conversion_table_file), given the two
\* files main() of the obfuscator wrote: __init__ parses the table
ParseTable ==
    /\ pc = "obfuscated"
    /\ obfuscated_code' = result_code
    /\ \E d \in {parse_conversion_table(conversion_table)} :
          /\ deobfuscator_prefix' = d.prefix
          /\ conversion_map' = d.conversion_map
    /\ pc' = "parsed"
    /\ UNCHANGED <<obfuscator, locals, restored_code>>

\* deobfuscate()
Deobfuscate ==
    /\ pc = "parsed"
    /\ restored_code' = deobfuscate(obfuscated_code, conversion_map, deobfuscator_prefix)
    /\ pc' = "done"
    /\ UNCHANGED <<obfuscator, locals, obfuscated_code, conversion_map, deobfuscator_prefix>>

Next ==
    \/ Protect
    \/ Extract
    \/ Apply
    \/ Restore
    \/ GenerateTable
    \/ ParseTable
    \/ Deobfuscate

Spec == Init /\ [][Next]_vars
(***************************************************************************)
(* Vocabulary of the properties                                            *)
(***************************************************************************)
\* The categories extract_identifiers fills
IdentifierCategories == Categories \ {"comment"}
Classified == pc \notin {"start", "protected"}
Transformed == pc \notin {"start", "protected", "extracted"}
Obfuscated == pc \in {"restored", "obfuscated", "parsed", "done"}
Parsed == pc \in {"parsed", "done"}

\* The word tokens of a text, left to right: its maximal runs of
\* identifier characters
TokenSpans(t, ms) == [j \in 1..Len(ms) |-> SubSeq(t, ms[j].s, ms[j].e - 1)]
Tokens(t) == TokenSpans(t, FindAll(Word1, t))

\* The string and character literals of a text as a C lexer reads it:
\* comments and literals are taken left to right, whichever starts first
LexemeRe == Alt(<<LineCommentRe, BlockCommentRe, StringRe, CharRe>>)
Lexemes(t) == TokenSpans(t, FindAll(LexemeRe, t))
Literals(t) == SelectSeq(Lexemes(t), LAMBDA x : Head(x) \in {"\"", "'"})

Registered(name) == \E c \in IdentifierCategories : HasKey(identifiers[c], name)
RegisteredNames == UNION {Keys(identifiers[c]) : c \in IdentifierCategories}
CategoriesOf(name) == {c \in IdentifierCategories : HasKey(identifiers[c], name)}
AssignedTo(name) == {Get(identifiers[c], name) : c \in CategoriesOf(name)}
\* name is a prefix or substring of another registered name, or has one
Overlapping(name) ==
    \E other \in RegisteredNames \ {name} : Contains(other, name) \/ Contains(name, other)

\* Every token of before that is a registered, overlapping name stands in
\* after, at the same position, as a name assigned to it
OwnNameAt(before, after) ==
    /\ Len(before) = Len(after)
    /\ \A j \in 1..Len(before) :
           (Registered(before[j]) /\ Overlapping(before[j]))
               => after[j] \in AssignedTo(before[j])
\* The pairs <<assigned, original>> of all the category maps
TableEntries ==
    UNION {{<<identifiers[c][j][2], identifiers[c][j][1]>> : j \in 1..Len(identifiers[c])}
           : c \in Categories}

\* The categories whose patterns find name in the protected text
MatchedBy(loops, code, name) ==
    {loops[j].category : j \in {k \in 1..Len(loops) :
        \E i \in 1..Len(LoopNames(loops[k], code)) : LoopNames(loops[k], code)[i] = name}}
\* The order of precedence the specification gives the categories
PrecedenceOrder == <<"macro", "enum", "struct", "union", "member", "function", "variable">>
EarliestOf(cats) ==
    PrecedenceOrder[Min({j \in 1..Len(PrecedenceOrder) : PrecedenceOrder[j] \in cats})]
\* Every token of before that the patterns of two categories or more find
\* stands in after as the name its earliest category assigned to it
EarliestNameAt(before, after, code) ==
    /\ Len(before) = Len(after)
    /\ \A j \in 1..Len(before) :
           (~is_reserved_word(before[j])
            /\ Cardinality(MatchedBy(Loops, code, before[j])) >= 2)
               => /\ HasKey(identifiers[EarliestOf(MatchedBy(Loops, code, before[j]))],
                            before[j])
                  /\ after[j] = Get(identifiers[EarliestOf(MatchedBy(Loops, code, before[j]))],
                                    before[j])
\* Every reserved word of before stands unchanged at its position in after
ReservedKeptAt(before, after) ==
    /\ Len(before) = Len(after)
    /\ \A j \in 1..Len(before) : before[j] \in c_keywords => after[j] = before[j]
\* The letters of the categories as the specification lists them
AllocationLetter ==
    [macro |-> "D", enum |-> "e", struct |-> "t", union |-> "u",
     function |-> "f", variable |-> "v", member |-> "m", comment |-> "c"]
NthName(c, n) == prefix \o <<AllocationLetter[c]>> \o Str(n)
\* The comment identifiers in the order replace_comment allocated them: a
\* comment with a body is kept in self.protected as its token form
CommentBody(x) ==
    IF Head(x) = "//" THEN Strip(Tail(x))
    ELSE IF Head(x) = "/*" THEN Strip(SubSeq(x, 2, Len(x) - 1))
    ELSE <<>>
AllocatedCommentIds ==
    SelectSeq([j \in 1..Len(protected) |-> CommentBody(protected[j][2])],
              LAMBDA x : x # <<>>)
\* The names allocated in category c, in the order of their allocation
Allocated(c) ==
    IF c = "comment" THEN AllocatedCommentIds
    ELSE [j \in 1..Len(identifiers[c]) |-> identifiers[c][j][2]]
\* No line of the table fits the arrow grammar of the prefix the parser uses
NoLineMatches(lines, pattern) ==
    \A j \in 1..Len(lines) : ~Match(<<pattern>>, lines[j], 1, NoGroups).ok

(***************************************************************************)
(* C1  Round trip: obfuscating a source with a prefix, decoding the table  *)
(* obfuscate() wrote and running deobfuscate() on the obfuscated text      *)
(* returns exactly the source.                                             *)
(***************************************************************************)
C1_RoundTrip == pc = "done" => restored_code = source_code

(***************************************************************************)
(* C2  No substring corruption: whenever a registered name is a prefix or  *)
(* substring of another registered name (or contains one),                 *)
(* apply_transformations replaces each of its whole-token occurrences by   *)
(* its own assigned name; the tokens of the text it returns are, position  *)
(* by position, those of the text it was given.                            *)
(***************************************************************************)
C2_NoSubstringCorruption ==
    Transformed => OwnNameAt(Tokens(protected_code), Tokens(transformed_code))

(***************************************************************************)
(* C3  Literal opacity: the string and character literals of the source    *)
(* are, in order and symbol for symbol, those of the text obfuscate()      *)
(* returns and again those of the text deobfuscate() returns.              *)
(***************************************************************************)
C3_LiteralOpacity ==
    /\ Obfuscated => Literals(result_code) = Literals(source_code)
    /\ pc = "done" => Literals(restored_code) = Literals(source_code)

(***************************************************************************)
(* C4  Assigned-name uniqueness: in every category (comments included) two *)
(* entries never hold the same assigned name, and no assigned name occurs  *)
(* in the maps of two categories.                                          *)
(***************************************************************************)
C4_AssignedNamesUnique ==
    /\ \A c \in Categories : \A i, j \in 1..Len(identifiers[c]) :
           identifiers[c][i][2] = identifiers[c][j][2] => i = j
    /\ \A c, d \in Categories :
           c # d => Values(identifiers[c]) \cap Values(identifiers[d]) = {}
\* Two categories hold names, one of them two names
C4_Witness ==
    /\ pc = "extracted"
    /\ \E c, d \in Categories :
           c # d /\ Len(identifiers[c]) >= 2 /\ Len(identifiers[d]) >= 1

(***************************************************************************)
(* C5  Table codec round trip: the map parse_conversion_table builds from  *)
(* the text generate_conversion_table wrote holds assigned -> original for *)
(* every entry of every category, comment bodies included, and nothing     *)
(* else.                                                                   *)
(***************************************************************************)
C5_TableRoundTrip ==
    Parsed => {<<conversion_map[j][1], conversion_map[j][2]>> : j \in 1..Len(conversion_map)}
                  = TableEntries

(***************************************************************************)
(* C6  Exactly one category per identifier: after extract_identifiers      *)
(* every registered name is a key of exactly one of the maps macro, enum,  *)
(* struct, union, function, member, variable.                              *)
(***************************************************************************)
C6_OneCategory ==
    Classified => \A name \in RegisteredNames : Cardinality(CategoriesOf(name)) = 1

(***************************************************************************)
(* C7  First-match precedence: a name that the patterns of more than one   *)
(* category find is replaced, at every whole-token occurrence, by the name *)
(* assigned in the earliest of those categories in the order macro, enum,  *)
(* struct, union, member, function, variable.                              *)
(***************************************************************************)
C7_FirstMatchPrecedence ==
    Transformed =>
        EarliestNameAt(Tokens(protected_code), Tokens(transformed_code), protected_code)

(***************************************************************************)
(* C8  Reserved words are never classified or renamed: no member of        *)
(* c_keywords is a key of a map extract_identifiers fills, and every       *)
(* reserved word of the protected text (the code outside comments and      *)
(* literals) stands unchanged at its position in the transformed text.     *)
(***************************************************************************)
C8_ReservedWordsKept ==
    /\ RegisteredNames \cap c_keywords = {}
    /\ Transformed => ReservedKeptAt(Tokens(protected_code), Tokens(transformed_code))
\* The function pattern finds main but extract_identifiers does not record
\* it, while another name of the text is renamed
C8_Witness ==
    /\ pc = "transformed"
    /\ "function" \in MatchedBy(Loops, protected_code, <<"main">>)
    /\ RegisteredNames # {}
    /\ transformed_code # protected_code

(***************************************************************************)
(* C9  Name allocation: in every category the n-th allocated name is       *)
(* <prefix><letter><n>, n from 1, the counter of the category is one plus  *)
(* the number of names allocated in it so far, every name a map holds is   *)
(* an allocated one, and no step decrements a counter.                     *)
(***************************************************************************)
C9_NameAllocation ==
    /\ [](\A c \in Categories :
            /\ counters[c] = Len(Allocated(c)) + 1
            /\ \A n \in 1..Len(Allocated(c)) : Allocated(c)[n] = NthName(c, n)
            /\ \A v \in Values(identifiers[c]) :
                   \E n \in 1..Len(Allocated(c)) : Allocated(c)[n] = v)
    /\ [][\A c \in Categories : counters'[c] >= counters[c]]_vars
\* A category of identifiers and the comments both hold a second name
C9_Witness ==
    /\ pc = "extracted"
    /\ \E c \in IdentifierCategories : counters[c] >= 3
    /\ counters["comment"] >= 2

(***************************************************************************)
(* C10  Soft decode failure: when no line of the table fits the arrow      *)
(* grammar, parse_conversion_table leaves the reverse map empty and        *)
(* deobfuscate() returns the obfuscated text unchanged.                    *)
(***************************************************************************)
C10_SoftDecodeFailure ==
    (Parsed /\ NoLineMatches(Split(conversion_table), LineRe(deobfuscator_prefix)))
        => /\ conversion_map = <<>>
           /\ pc = "done" => restored_code = obfuscated_code
\* A table with entries, none of which the parser accepts, and an
\* obfuscated text that holds assigned names
C10_Witness ==
    /\ pc = "done"
    /\ NoLineMatches(Split(conversion_table), LineRe(deobfuscator_prefix))
    /\ TableEntries # {}
    /\ obfuscated_code # source_code
    /\ restored_code = obfuscated_code

\* The placeholders of self.protected are pairwise distinct
DistinctPlaceholders ==
    \A i, j \in 1..Len(protected) : protected[i][1] = protected[j][1] => i = j
\* The text holds the word of the placeholders
HoldsPlaceholder(t) == \E j \in 1..Len(t) : t[j] = "PROTECTED"

(***************************************************************************)
(* C11  Un-protection inverts shielding: for a source without non-empty    *)
(* comments, restore_protected applied to the text and the spans that      *)
(* remove_comments_strings_and_directives produced gives the source back   *)
(* (empty comments included), the placeholders are pairwise distinct and   *)
(* no placeholder remains in the restored text.                            *)
(***************************************************************************)
C11_UnprotectInverts ==
    (pc # "start" /\ identifiers["comment"] = <<>>)
        => /\ restore_protected(protected_code, protected) = source_code
           /\ DistinctPlaceholders
           /\ ~HoldsPlaceholder(restore_protected(protected_code, protected))

\* The segments of a token: its parts between underscores
Segments(tok) ==
    LET breaks == {i \in 1..Len(tok) : tok[i] = "_"}
        at(k) == IF k = 0 THEN 0
                 ELSE IF k > Cardinality(breaks) THEN Len(tok) + 1
                 ELSE CHOOSE p \in breaks : Cardinality({q \in breaks : q <= p}) = k
    IN [k \in 1..(Cardinality(breaks) + 1) |-> SubSeq(tok, at(k - 1) + 1, at(k) - 1)]
\* The assigned names of the reverse map that are no comment tokens
NormalNames == {k \in Keys(conversion_map) : ~IsCommentId(k, deobfuscator_prefix)}
CommentNames == Keys(conversion_map) \ NormalNames
RestoredSegment(seg) == IF seg \in NormalNames THEN Get(conversion_map, seg) ELSE seg
\* The token with each segment that is an assigned name restored
SegmentsRestored(tok) ==
    Join([k \in 1..Len(Segments(tok)) |-> RestoredSegment(Segments(tok)[k])], <<"_">>)
\* A larger identifier with an assigned name as one of its segments
Compound(tok) ==
    Len(Segments(tok)) >= 2 /\ \E k \in 1..Len(Segments(tok)) : Segments(tok)[k] \in NormalNames
\* A token that is no assigned name and has none as a segment, but begins
\* with one
LongerName(tok) ==
    /\ \A k \in 1..Len(Segments(tok)) : Segments(tok)[k] \notin NormalNames
    /\ \E n \in NormalNames : Len(tok) > Len(n) /\ StartsWith(tok, n)
SegmentsRestoredAt(before, after) ==
    \A j \in 1..Len(before) :
        /\ Compound(before[j])
               => Len(after) = Len(before) /\ after[j] = SegmentsRestored(before[j])
        /\ LongerName(before[j])
               => Len(after) = Len(before) /\ after[j] = before[j]

(***************************************************************************)
(* C12  Extended reverse substitution: in the text deobfuscate() returns,  *)
(* every token of the obfuscated text that has non-comment assigned names  *)
(* among its underscore-delimited segments stands with each such segment   *)
(* replaced by its original name (two adjacent segments included), and a   *)
(* token that only begins with an assigned name (Utf10 beside Utf1) stands *)
(* unchanged.  Stated for the runs whose reverse map holds no comment      *)
(* token, where the tokens of the two texts correspond one to one.         *)
(***************************************************************************)
C12_ExtendedReverse ==
    (pc = "done" /\ CommentNames = {})
        => SegmentsRestoredAt(Tokens(obfuscated_code), Tokens(restored_code))

\* How many elements of seq are x
Count(seq, x) == Cardinality({j \in 1..Len(seq) : seq[j] = x})
EndsWith(t, e) == Len(t) >= Len(e) /\ SubSeq(t, Len(t) - Len(e) + 1, Len(t)) = e
\* Where the line a holds tok as a line comment that ends the line, and
\* where it holds tok as a block comment
LineForms(a, tok) ==
    {i \in 1..Len(a) : a[i] = "//" /\ Strip(SubSeq(a, i + 1, Len(a))) = tok}
BlockForms(a, tok) ==
    {i \in 1..Len(a) : a[i] = "/*" /\ \E j \in (i + 1)..Len(a) :
        a[j] = "*/" /\ Strip(SubSeq(a, i + 1, j - 1)) = tok}
\* The occurrences of tok in the line a that are in neither form
Elsewhere(a, tok) ==
    Count(Tokens(a), tok) - Cardinality(LineForms(a, tok)) - Cardinality(BlockForms(a, tok))
\* The line b is the line a with the comment token tok, of original text
\* old, rewritten in its two comment forms and nowhere else
CommentRestoredIn(a, b, tok, old) ==
    /\ LineForms(a, tok) # {} => EndsWith(Strip(b), <<"//", " ">> \o old)
    /\ BlockForms(a, tok) # {} => Contains(b, <<"/*", " ">> \o old \o <<" ", "*/">>)
    /\ Count(Tokens(b), tok) >= Elsewhere(a, tok)
CommentsRestoredAt(before, after) ==
    /\ Len(before) = Len(after)
    /\ \A k \in 1..Len(before) : \A tok \in CommentNames :
           CommentRestoredIn(before[k], after[k], tok, Get(conversion_map, tok))

(***************************************************************************)
(* C13  Two-phase restoration: line by line (an original text of the       *)
(* reverse map holds no line break, so the lines of the obfuscated text    *)
(* and of the text deobfuscate() returns correspond), a comment token that *)
(* ends a line as "// token" stands there as "// original", one that       *)
(* stands as a block comment stands as the block comment of its original,  *)
(* with the original as the table gives it (the names restored before the  *)
(* comments do not touch it), and every other occurrence of the token in   *)
(* the line is still there.                                                *)
(***************************************************************************)
C13_TwoPhaseRestoration ==
    pc = "done" => CommentsRestoredAt(Split(obfuscated_code), Split(restored_code))

\* The steps of obfuscate() seen in the program's data: a step allocates a
\* name of the categories cs (their counter moves), records a name under a
\* code category, rewrites identifiers, puts the protected spans back
Allocates(cs) == \E c \in cs : counters'[c] # counters[c]
Classifies == \E c \in IdentifierCategories : identifiers'[c] # identifiers[c]
Substitutes == transformed_code' # transformed_code
Unprotects == result_code' # result_code
Protected == pc # "start"

(***************************************************************************)
(* C14 as stated  Pipeline ordering: protection has completed when a step  *)
(* classifies, classification has completed when a step allocates a name,  *)
(* classification and allocation have completed when a step rewrites       *)
(* identifiers, and substitution has completed when a step replaces        *)
(* placeholders by their payloads.                                         *)
(***************************************************************************)
C14_PipelineOrdering ==
    [][/\ Classifies => Protected
       /\ Allocates(Categories) => Classified
       /\ Substitutes => Classified /\ ~Allocates(Categories)
       /\ Unprotects => Transformed /\ ~Substitutes]_vars

(***************************************************************************)
(* C14  Pipeline ordering: the comment names are allocated during          *)
(* protection and every other name during classification, in the step      *)
(* that records its identifier; protection has completed when a step       *)
(* classifies; once classification has completed no name is recorded or    *)
(* allocated any more, and only then are identifiers rewritten; once       *)
(* substitution has completed the rewritten text does not change, and only *)
(* then are placeholders replaced by their payloads.                       *)
(***************************************************************************)
C14_StagesInOrder ==
    [][/\ Classifies => Protected /\ ~Classified
       /\ Allocates({"comment"}) => ~Protected
       /\ Allocates(IdentifierCategories) => Classifies
       /\ Classified => identifiers' = identifiers /\ counters' = counters
       /\ Substitutes => Classified
       /\ Transformed => transformed_code' = transformed_code
       /\ Unprotects => Transformed]_vars

\* obfuscate() has run all four stages, each with work to do: comment names
\* and other names are allocated, identifiers are rewritten, spans are put back
C14_Witness ==
    /\ pc = "restored"
    /\ identifiers["comment"] # <<>>
    /\ \E c \in IdentifierCategories : identifiers[c] # <<>>
    /\ transformed_code # protected_code
    /\ result_code # transformed_code

\* The names this run of obfuscate() allocated, the names its identifier
\* maps hold, and the names that have a line in the table it wrote
AllocatedNames == UNION {{Allocated(c)[j] : j \in 1..Len(Allocated(c))} : c \in Categories}
AssignedNames == UNION {Values(identifiers[c]) : c \in Categories}
Appears(name, text) == \E k \in 1..Len(Tokens(text)) : Tokens(text)[k] = name
HasTableLine(name, lines) ==
    \E k \in 1..Len(lines) : EndsWith(lines[k], <<" ", "->", " ">> \o name)

(***************************************************************************)
(* C15  Every emitted token is in the table: when obfuscate() has          *)
(* returned, every name it allocated that appears as a token of the        *)
(* obfuscated text is the assigned name of an entry of the identifier      *)
(* maps and ends a line of the conversion table.                           *)
(***************************************************************************)
C15_EmittedNamesInTable ==
    pc \in {"obfuscated", "parsed", "done"}
        => \A name \in AllocatedNames :
               Appears(name, result_code)
                   => name \in AssignedNames /\ HasTableLine(name, Split(conversion_table))

=============================================================================
